---- MODULE Spec2Model ----
(***************************************************************************)
(* LiveCAD (LiveCAD_Master/app.py): the thread/bolt recipe `generate` of   *)
(* DEFAULT_CODE and the window that re-runs it (LiveCADWindow,             *)
(* ParamSlider).                                                           *)
(*                                                                         *)
(* Numbers.  Every parameter value is held in hundredths (the sliders'     *)
(* multiplier is 100 and the spin boxes show 2 decimals): 1.5 mm is 150,   *)
(* resolution 64 is 6400.  Radii are exact rationals, see current_r.       *)
(* The mesh offset is held in thousandths of a millimetre, so that the     *)
(* threshold 0.001 is 1.                                                   *)
(***************************************************************************)
EXTENDS Integers, Sequences, FiniteSets

VARIABLES
    \* ---- LiveCADWindow ----
    editor,           \* self.editor's text: the recipe it holds
    sliders,          \* the ParamSlider widgets of self.param_layout, by name
    current_params,   \* self.current_params
    generated_mesh,   \* self.generated_mesh
    offset,           \* self.offset_spin.value(), in thousandths
    last,             \* what the most recent event did (history)
    good,             \* mesh and parameters after the most recent successful regeneration (history)
    \* ---- one call of generate(params) ----
    g_stage,          \* how far the call has got
    g_params,         \* its argument
    g_slices,         \* total_slices
    g_radius,         \* current_r at sampled (phase, z)
    g_faces,          \* faces of thread_mesh
    g_bolt            \* the concatenated mesh

gui_vars == <<editor, sliders, current_params, generated_mesh, offset, last, good>>
gen_vars == <<g_stage, g_params, g_slices, g_radius, g_faces, g_bolt>>
vars == <<editor, sliders, current_params, generated_mesh, offset, last, good,
          g_stage, g_params, g_slices, g_radius, g_faces, g_bolt>>

Abs(x) == IF x < 0 THEN -x ELSE x
Min(a, b) == IF a < b THEN a ELSE b
Max(a, b) == IF a > b THEN a ELSE b

\* np.clip(x, lo, hi)
Clip(x, lo, hi) == IF x < lo THEN lo ELSE IF x > hi THEN hi ELSE x

(***************************************************************************)
(* generate(params): derived dimensions and the slice count                *)
(***************************************************************************)

\* slices_per_pitch = 12
slices_per_pitch == 12

\* 0.613, the thread-depth coefficient, in thousandths
DepthCoeff == 613

\* (length, pitch) pairs of the sampled domain for which the double product
\* (length / pitch) * slices_per_pitch falls just below its exact value, an
\* integer: (10.03 / 0.51) * 12 is 235.99999999999997 in IEEE-754 doubles,
\* exactly 236 over the rationals.  Every other sampled pair has a double
\* product whose integer part is that of the exact product.
FloatShort == {<<1003, 51>>}

\* int(x) for x >= 0 given as the rational num/den: truncation
IntTrunc(num, den) == num \div den

\* round(x) of Python 3 for x >= 0 given as num/den: nearest, ties to even
RoundNearest(num, den) ==
    LET q == num \div den
        r == num % den
    IN  IF 2 * r < den THEN q
        ELSE IF 2 * r > den THEN q + 1
        ELSE IF q % 2 = 0 THEN q ELSE q + 1

\* IntOfProduct with a fault: the product rounded to nearest
IntOfProductRounded(length, pitch) == RoundNearest(slices_per_pitch * length, pitch)

\* int((length / pitch) * slices_per_pitch), on doubles
IntOfProduct(length, pitch) ==
    IF <<length, pitch>> \in FloatShort
    THEN IntTrunc(slices_per_pitch * length, pitch) - 1
    ELSE IntTrunc(slices_per_pitch * length, pitch)

\* total_slices, with `if total_slices < 2: total_slices = 2`
TotalSlices(length, pitch) ==
    LET total_slices == IntOfProduct(length, pitch)
    IN  IF total_slices < 2 THEN 2 ELSE total_slices

\* res = int(params['resolution'])
Res(params) == IntTrunc(params.resolution, 100)

\* thread_depth = 0.613 * pitch, in units of 1e-5 mm
ThreadDepth(pitch) == DepthCoeff * pitch

\* d_minor = d_major - 2 * thread_depth, in units of 1e-5 mm
DMinor(d_major, pitch) == 1000 * d_major - 2 * ThreadDepth(pitch)

\* r_base = d_minor / 2.0 (d_minor is even in these units)
RBase(d_major, pitch) == DMinor(d_major, pitch) \div 2

(***************************************************************************)
(* generate(params): profile, taper and radius.  helix_phase is sampled at *)
(* ph / PhaseDen, ph in 0..PhaseDen-1; z is in hundredths.                 *)
(***************************************************************************)

PhaseDen == 4

\* profile = 1.0 - 2.0 * |helix_phase - 0.5|, as a numerator over PhaseDen
Profile(ph) == PhaseDen - Abs(2 * ph - PhaseDen)

\* taper_mask = np.clip(z / taper_len, 0, 1), taper_len = 1.5 * pitch:
\* a numerator over 3 * pitch
TaperMask(z, pitch) == Clip(2 * z, 0, 3 * pitch)

\* np.minimum(1.0, 0.8 + 0.2 * taper_mask), a numerator over 15 * pitch
TaperFactor(z, pitch) == Min(15 * pitch, 12 * pitch + TaperMask(z, pitch))

\* the exact product a * f (f >= 0) as two digits in base 1024, hi * 1024 + lo
\* with lo in 0..1023, so that no intermediate result leaves 32 bits
WideMul(a, f) ==
    LET p == (a % 1024) * f
    IN  [hi |-> (a \div 1024) * f + (p \div 1024), lo |-> p % 1024]

WideLeq(x, y) == x.hi < y.hi \/ (x.hi = y.hi /\ x.lo <= y.lo)

\* current_r = (r_base + r_offset) * np.minimum(1.0, 0.8 + 0.2 * taper_mask),
\* r_offset = thread_depth * profile: the numerator of the radius over the
\* denominator PhaseDen * 15 * pitch * 1e5, which depends on pitch alone
CurrentR(d_major, pitch, ph, z) ==
    WideMul(RBase(d_major, pitch) * PhaseDen + ThreadDepth(pitch) * Profile(ph),
            TaperFactor(z, pitch))

\* the heights at which the radius is sampled, in hundredths
ZSamples == {0, 30, 75, 150, 225, 400, 599, 600, 1000}

(***************************************************************************)
(* generate(params): faces of the thread surface (numpy on index arrays).  *)
(* A 2-d array is a sequence of rows, a 1-d array a sequence; indices they *)
(* hold are the 0-based vertex indices of the code.                        *)
(***************************************************************************)

\* Idx with a fault: the indices numbered from 1
IdxFromOne(rows, cols) ==
    [i \in 1..rows |-> [j \in 1..cols |-> (i - 1) * cols + (j - 1) + 1]]

\* idx = np.arange(rows * cols).reshape((rows, cols))
Idx(rows, cols) ==
    [i \in 1..rows |-> [j \in 1..cols |-> (i - 1) * cols + (j - 1)]]

\* m[:-1, :]
DropLastRow(m) == SubSeq(m, 1, Len(m) - 1)

\* m[1:, :]
DropFirstRow(m) == SubSeq(m, 2, Len(m))

\* RollCols with a fault: np.roll(m, 1, axis=1)
RollColsRight(m) ==
    [i \in 1..Len(m) |->
        [j \in 1..Len(m[i]) |-> m[i][((j + Len(m[i]) - 2) % Len(m[i])) + 1]]]

\* np.roll(m, -1, axis=1): column j takes the value of column j+1, cyclically
RollCols(m) ==
    [i \in 1..Len(m) |-> [j \in 1..Len(m[i]) |-> m[i][(j % Len(m[i])) + 1]]]

\* m.flatten(), row-major
Flatten(m) ==
    IF Len(m) = 0 THEN <<>>
    ELSE LET cols == Len(m[1])
         IN  [k \in 1..(Len(m) * cols) |-> m[((k - 1) \div cols) + 1][((k - 1) % cols) + 1]]

\* np.column_stack((a, b, c)) of three 1-d arrays
ColumnStack(a, b, c) == [k \in 1..Len(a) |-> <<a[k], b[k], c[k]>>]

\* np.vstack((f1, f2))
VStack(f1, f2) == f1 \o f2

\* faces of thread_mesh
ThreadFaces(rows, cols) ==
    LET idx == Idx(rows, cols)
        c   == Flatten(DropLastRow(idx))
        cn  == Flatten(RollCols(DropLastRow(idx)))
        n   == Flatten(DropFirstRow(idx))
        nn  == Flatten(RollCols(DropFirstRow(idx)))
        f1  == ColumnStack(c, cn, nn)
        f2  == ColumnStack(c, nn, n)
    IN  VStack(f1, f2)

\* thread_mesh = trimesh.Trimesh(vertices, faces); vertices has rows*cols rows
ThreadMesh(rows, cols) == [nv |-> rows * cols, faces |-> ThreadFaces(rows, cols)]

\* trimesh.creation.cylinder(radius, height, sections): a closed cylinder,
\* two cap centres (0, 1), a bottom ring (2..s+1) and a top ring (s+2..2s+1);
\* a fan on each cap and two triangles per side quad
Cylinder(sections) ==
    LET s == sections
        b(j) == 2 + (j % s)
        t(j) == 2 + s + (j % s)
    IN  [nv |-> 2 * s + 2,
         faces |-> [k \in 1..s |-> <<0, b(k), b(k - 1)>>]
                \o [k \in 1..s |-> <<1, t(k - 1), t(k)>>]
                \o [k \in 1..s |-> <<b(k - 1), b(k), t(k)>>]
                \o [k \in 1..s |-> <<b(k - 1), t(k), t(k - 1)>>]]

\* f + shift on every index of a face list
ShiftFaces(faces, shift) ==
    [k \in 1..Len(faces) |-> <<faces[k][1] + shift, faces[k][2] + shift, faces[k][3] + shift>>]

RECURSIVE Concatenate(_)
\* trimesh.util.concatenate(meshes): vertices appended, each part's faces
\* shifted by the number of vertices before it
Concatenate(meshes) ==
    IF Len(meshes) = 0 THEN [nv |-> 0, faces |-> <<>>]
    ELSE LET init == Concatenate(SubSeq(meshes, 1, Len(meshes) - 1))
             m    == meshes[Len(meshes)]
         IN  [nv |-> init.nv + m.nv,
              faces |-> init.faces \o ShiftFaces(m.faces, init.nv)]

\* bolt = concatenate([head, thread_mesh, cap]); head has 6 sections, cap res
Bolt(rows, cols) ==
    Concatenate(<<Cylinder(6), ThreadMesh(rows, cols), Cylinder(cols)>>)

(***************************************************************************)
(* The recipes the editor may hold.  DEFAULT_CODE is "default"; the others *)
(* are texts a user may type, one per way a recipe can go wrong.  A        *)
(* declaration is the tuple of `parameters`: (default, min, max), with     *)
(* whether the default is a Python int, and whether the tuple has the      *)
(* three entries ParamSlider's signature needs.                            *)
(***************************************************************************)

Decl(name, default, min_val, max_val, int_literal) ==
    [name |-> name, default |-> default, min_val |-> min_val, max_val |-> max_val,
     int_literal |-> int_literal, well_formed |-> TRUE]

\* a tuple with a single entry, e.g. 'length': (40.0,)
ShortDecl(name, default) ==
    [name |-> name, default |-> default, min_val |-> 0, max_val |-> 0,
     int_literal |-> FALSE, well_formed |-> FALSE]

\* `parameters` of DEFAULT_CODE, in declaration order
DefaultParameters ==
    << Decl("diameter_m", 1000, 300, 3000, FALSE),
       Decl("length", 4000, 1000, 15000, FALSE),
       Decl("pitch", 150, 50, 400, FALSE),
       Decl("head_size", 1700, 500, 5000, FALSE),
       Decl("head_height", 700, 200, 2000, FALSE),
       Decl("resolution", 6400, 3200, 12800, TRUE) >>

PitchOnly == << Decl("pitch", 150, 50, 400, FALSE) >>

RecipeIds ==
    {"default", "syntax", "noimport", "nogen", "strict", "badbounds", "polydata", "shortdecl"}

\* what evaluating the text of a recipe gives
Recipe(id) ==
    CASE id = "default" ->    \* DEFAULT_CODE
            [parse_exec_raises |-> FALSE, run_exec_raises |-> FALSE, has_parameters |-> TRUE,
             parameters |-> DefaultParameters, has_generate |-> TRUE]
      [] id = "syntax" ->     \* a text that does not compile
            [parse_exec_raises |-> TRUE, run_exec_raises |-> TRUE, has_parameters |-> FALSE,
             parameters |-> <<>>, has_generate |-> FALSE]
      [] id = "noimport" ->   \* uses np at top level without importing it: defined in
                              \* globals() (run_generation), not in {} (parse_parameters)
            [parse_exec_raises |-> TRUE, run_exec_raises |-> FALSE, has_parameters |-> TRUE,
             parameters |-> PitchOnly, has_generate |-> TRUE]
      [] id = "nogen" ->      \* declares parameters, defines no generate
            [parse_exec_raises |-> FALSE, run_exec_raises |-> FALSE, has_parameters |-> TRUE,
             parameters |-> PitchOnly, has_generate |-> FALSE]
      [] id = "strict" ->     \* generate raises ValueError when pitch > 3.0
            [parse_exec_raises |-> FALSE, run_exec_raises |-> FALSE, has_parameters |-> TRUE,
             parameters |-> PitchOnly, has_generate |-> TRUE]
      [] id = "badbounds" ->  \* 'pitch': (5.0, 10.0, 20.0), 'length': (40.0, 150.0, 10.0)
            [parse_exec_raises |-> FALSE, run_exec_raises |-> FALSE, has_parameters |-> TRUE,
             parameters |-> << Decl("pitch", 500, 1000, 2000, FALSE),
                               Decl("length", 4000, 15000, 1000, FALSE) >>,
             has_generate |-> TRUE]
      [] id = "polydata" ->   \* generate returns a pyvista.PolyData: no fix_normals
            [parse_exec_raises |-> FALSE, run_exec_raises |-> FALSE, has_parameters |-> TRUE,
             parameters |-> PitchOnly, has_generate |-> TRUE]
      [] id = "shortdecl" ->  \* 'pitch': (2.0, 0.5, 4.0), 'length': (40.0,)
            [parse_exec_raises |-> FALSE, run_exec_raises |-> FALSE, has_parameters |-> TRUE,
             parameters |-> << Decl("pitch", 200, 50, 400, FALSE), ShortDecl("length", 4000) >>,
             has_generate |-> TRUE]

\* the keys generate(params) reads
RequiredKeys(id) ==
    IF id = "default"
    THEN {"diameter_m", "length", "pitch", "head_size", "head_height", "resolution"}
    ELSE IF id = "badbounds" THEN {"pitch", "length"}
    ELSE {"pitch"}

\* local_scope['generate'](self.current_params) raises: a KeyError on a key it
\* reads, or the recipe's own exception
GenerateRaises(id, params) ==
    \/ ~(RequiredKeys(id) \subseteq DOMAIN params)
    \/ id = "strict" /\ params["pitch"] > 300

EmptyMap == [x \in {} |-> 0]

Put(f, k, v) == [x \in (DOMAIN f) \cup {k} |-> IF x = k THEN v ELSE f[x]]

\* self.generated_mesh = None
NoMesh == [kind |-> "None", recipe |-> "None", params |-> EmptyMap, disp |-> 0, displaced |-> 0]

\* the object generate(params) returns: built by this call, identified by the
\* recipe and the arguments; disp is the displacement its vertices have had
\* along their normals (thousandths), displaced the number of times
Generate(id, params) ==
    [kind |-> IF id = "polydata" THEN "PolyData" ELSE "Trimesh",
     recipe |-> id, params |-> params, disp |-> 0, displaced |-> 0]

\* 0.001, in thousandths
OffsetEps == 1

\* abs(offset) > 0.001
OffsetApplies(off) == Abs(off) > OffsetEps

\* mesh.fix_normals(); mesh.vertices += mesh.vertex_normals * offset
ApplyOffset(mesh, off) ==
    [mesh EXCEPT !.disp = @ + off, !.displaced = @ + 1]

(***************************************************************************)
(* Handlers.  A handler is an operator from the window's state (a record   *)
(* st of the fields below) to its state afterwards; `last` and `good` are  *)
(* history: what the current event has done so far, and the result of the  *)
(* most recent regeneration that succeeded.                                *)
(***************************************************************************)

St == [editor |-> editor, sliders |-> sliders, current_params |-> current_params,
       generated_mesh |-> generated_mesh, offset |-> offset, last |-> last, good |-> good]

NewEvent(kind) ==
    [kind |-> kind, regen |-> FALSE, ok |-> FALSE, fail |-> "none",
     emits |-> 0, updates |-> 0, runs |-> 0]

Failed(st, why) ==
    [st EXCEPT !.last.regen = TRUE, !.last.ok = FALSE, !.last.fail = why]

\* self.generated_mesh = mesh, then the plotter calls
Stored(st, mesh) ==
    [st EXCEPT !.generated_mesh = mesh,
               !.last.regen = TRUE, !.last.ok = TRUE, !.last.fail = "none",
               !.good = [mesh |-> mesh, params |-> st.current_params]]

\* MeshOfCall with a fault: the held mesh is handed out again when the recipe
\* and the parameters are those it was generated from
MeshOfCallCached(st) ==
    IF st.generated_mesh.recipe = st.editor /\ st.generated_mesh.params = st.current_params
    THEN st.generated_mesh
    ELSE Generate(st.editor, st.current_params)

\* mesh = local_scope['generate'](self.current_params)
MeshOfCall(st) == Generate(st.editor, st.current_params)

\* RunGeneration with a fault: the mesh is assigned before the offset step
RunGenerationStoreEarly(st0) ==
    LET st == [st0 EXCEPT !.last.runs = @ + 1]
    IN  IF Recipe(st.editor).run_exec_raises THEN Failed(st, "exec")
        ELSE IF ~Recipe(st.editor).has_generate THEN Failed(st, "nogenerate")
        ELSE IF GenerateRaises(st.editor, st.current_params) THEN Failed(st, "generate")
        ELSE LET mesh == MeshOfCall(st)
             IN  IF OffsetApplies(st.offset)
                 THEN IF mesh.kind # "Trimesh"
                      THEN [Failed(st, "offset") EXCEPT !.generated_mesh = mesh]
                      ELSE Stored(st, ApplyOffset(mesh, st.offset))
                 ELSE Stored(st, mesh)

\* LiveCADWindow.run_generation
RunGeneration(st0) ==
    LET st == [st0 EXCEPT !.last.runs = @ + 1]
    IN  IF Recipe(st.editor).run_exec_raises THEN Failed(st, "exec")
        ELSE IF ~Recipe(st.editor).has_generate THEN Failed(st, "nogenerate")
        ELSE IF GenerateRaises(st.editor, st.current_params) THEN Failed(st, "generate")
        ELSE LET mesh == MeshOfCall(st)
             IN  IF OffsetApplies(st.offset)
                 THEN IF mesh.kind # "Trimesh"
                      THEN Failed(st, "offset")
                      ELSE Stored(st, ApplyOffset(mesh, st.offset))
                 ELSE Stored(st, mesh)

\* LiveCADWindow.update_param_and_run
UpdateParamAndRun(st, name, value) ==
    RunGeneration([st EXCEPT !.current_params = Put(@, name, value),
                             !.last.updates = @ + 1])

(***************************************************************************)
(* ParamSlider: a QSlider over integer positions and a QDoubleSpinBox,     *)
(* kept equal by _on_slider and _on_input.  A widget is a record: s_* the  *)
(* slider (positions), i_* the spin box (hundredths), decl the constructor *)
(* arguments.                                                              *)
(***************************************************************************)

\* the sampled values v (hundredths) for which the double (v/100) * 100 is
\* just below the integer v, so that int() gives v - 1: int(0.57 * 100) = 56
TimesHundredShort == {57}

\* int(value * multiplier), value >= 0 in hundredths, multiplier 1 or 100
IntTimes(value, multiplier) ==
    IF multiplier = 1 THEN IntTrunc(value, 100)
    ELSE IF value \in TimesHundredShort THEN value - 1 ELSE value

\* val / self.multiplier, in hundredths
SliderToFloat(val, multiplier) == (val * 100) \div multiplier

\* QDoubleSpinBox's rounding of a value to its decimals (0 or 2)
RoundToDecimals(value, decimals) ==
    IF decimals = 2 THEN value ELSE 100 * RoundNearest(value, 100)

\* IsIntFlag with a fault: the flag taken from the default's value
IsIntFlagByValue(decl) == decl.default % 100 = 0

\* isinstance(val[0], int)
IsIntFlag(decl) == decl.int_literal

\* QAbstractSlider.setMinimum / setMaximum / setValue
SliderSetMinimum(w, a) ==
    [w EXCEPT !.s_min = a, !.s_max = Max(w.s_max, a), !.s_val = Clip(w.s_val, a, Max(w.s_max, a))]

SliderSetMaximum(w, b) ==
    [w EXCEPT !.s_max = b, !.s_min = Min(w.s_min, b), !.s_val = Clip(w.s_val, Min(w.s_min, b), b)]

\* QDoubleSpinBox.setRange / setDecimals
SpinSetRange(w, lo, hi) ==
    LET a == RoundToDecimals(lo, w.i_dec)
        b == Max(a, RoundToDecimals(hi, w.i_dec))
    IN  [w EXCEPT !.i_min = a, !.i_max = b, !.i_val = Clip(w.i_val, a, b)]

SpinSetDecimals(w, d) ==
    LET a == RoundToDecimals(w.i_min, d)
        b == Max(a, RoundToDecimals(w.i_max, d))
    IN  [w EXCEPT !.i_dec = d, !.i_min = a, !.i_max = b,
                  !.i_val = Clip(RoundToDecimals(w.i_val, d), a, b)]

\* ParamSlider.__init__(name, default, min_val, max_val, is_int); the two
\* valueChanged signals are connected last, so nothing is emitted here
ParamSliderInit(decl, is_int) ==
    LET multiplier == IF is_int THEN 1 ELSE 100
        w0 == [is_int |-> is_int, multiplier |-> multiplier,
               s_min |-> 0, s_max |-> 99, s_val |-> 0, s_blocked |-> FALSE,
               i_min |-> 0, i_max |-> 9999, i_val |-> 0, i_dec |-> 2, i_blocked |-> FALSE,
               decl |-> decl]
        w1 == SliderSetMinimum(w0, IntTimes(decl.min_val, multiplier))
        w2 == SliderSetMaximum(w1, IntTimes(decl.max_val, multiplier))
        w3 == [w2 EXCEPT !.s_val = Clip(IntTimes(decl.default, multiplier), w2.s_min, w2.s_max)]
        w4 == SpinSetRange(w3, decl.min_val, decl.max_val)
        w5 == [w4 EXCEPT !.i_val = Clip(RoundToDecimals(decl.default, w4.i_dec), w4.i_min, w4.i_max)]
    IN  SpinSetDecimals(w5, IF is_int THEN 0 ELSE 2)

\* value_changed.emit(name, value): the slot connected in parse_parameters
EmitValueChanged(st, name, value) ==
    UpdateParamAndRun([st EXCEPT !.last.emits = @ + 1], name, value)

\* InputBlockSignals with a fault: the spin box's signals are never blocked
InputBlockSignalsIgnored(st, name, b) == st

\* self.input.blockSignals(b)
InputBlockSignals(st, name, b) == [st EXCEPT !.sliders[name].i_blocked = b]

\* self.slider.blockSignals(b)
SliderBlockSignals(st, name, b) == [st EXCEPT !.sliders[name].s_blocked = b]

RECURSIVE OnSlider(_, _, _)
RECURSIVE OnInput(_, _, _)

\* self.input.setValue(v): valueChanged is emitted (and _on_input runs) when
\* the value changes and the signals are not blocked
InputSetValue(st, name, v) ==
    LET w   == st.sliders[name]
        nv  == Clip(RoundToDecimals(v, w.i_dec), w.i_min, w.i_max)
        st1 == [st EXCEPT !.sliders[name].i_val = nv]
    IN  IF nv # w.i_val /\ ~w.i_blocked THEN OnInput(st1, name, nv) ELSE st1

\* self.slider.setValue(p): likewise for _on_slider
SliderSetValue(st, name, p) ==
    LET w   == st.sliders[name]
        np  == Clip(p, w.s_min, w.s_max)
        st1 == [st EXCEPT !.sliders[name].s_val = np]
    IN  IF np # w.s_val /\ ~w.s_blocked THEN OnSlider(st1, name, np) ELSE st1

\* ParamSlider._on_slider
OnSlider(st, name, val) ==
    LET float_val == SliderToFloat(val, st.sliders[name].multiplier)
        st1 == InputBlockSignals(st, name, TRUE)
        st2 == InputSetValue(st1, name, float_val)
        st3 == InputBlockSignals(st2, name, FALSE)
    IN  EmitValueChanged(st3, name, float_val)

\* ParamSlider._on_input
OnInput(st, name, val) ==
    LET st1 == SliderBlockSignals(st, name, TRUE)
        st2 == SliderSetValue(st1, name, IntTimes(val, st.sliders[name].multiplier))
        st3 == SliderBlockSignals(st2, name, FALSE)
    IN  EmitValueChanged(st3, name, val)

RECURSIVE AddSliders(_, _, _)
\* the loop of parse_parameters over new_params_def.items(), from entry k,
\* then self.run_generation(); ParamSlider(key, *val, ...) raises a TypeError
\* on a tuple that is too short, which ends parse_parameters there
AddSliders(st, decls, k) ==
    IF k > Len(decls) THEN RunGeneration(st)
    ELSE IF ~decls[k].well_formed THEN Failed(st, "decl")
    ELSE AddSliders(
            [st EXCEPT !.sliders = Put(@, decls[k].name, ParamSliderInit(decls[k], IsIntFlag(decls[k]))),
                       !.current_params = Put(@, decls[k].name, decls[k].default)],
            decls, k + 1)

\* LiveCADWindow.parse_parameters
ParseParameters(st) ==
    IF Recipe(st.editor).parse_exec_raises THEN Failed(st, "exec")
    ELSE IF ~Recipe(st.editor).has_parameters THEN Failed(st, "noparameters")
    ELSE AddSliders([st EXCEPT !.sliders = EmptyMap, !.current_params = EmptyMap],
                    Recipe(st.editor).parameters, 1)

(***************************************************************************)
(* The window: its state after LiveCADWindow.__init__, and the events.     *)
(***************************************************************************)

\* the fields as __init__ sets them before it calls parse_parameters
Constructed ==
    [editor |-> "default", sliders |-> EmptyMap, current_params |-> EmptyMap,
     generated_mesh |-> NoMesh, offset |-> 0, last |-> NewEvent("init"),
     good |-> [mesh |-> NoMesh, params |-> EmptyMap]]

\* the values a user gives a parameter, in hundredths
UserValues(name) ==
    CASE name = "pitch" -> {57, 400, 1500}
      [] name = "resolution" -> {4800}
      [] name = "diameter_m" -> {3000}
      [] OTHER -> {}

\* the values a user gives the offset spin box, in thousandths (2 decimals)
OffsetValues == {-50, 0, 50}

GenIdle ==
    /\ g_stage = "idle"
    /\ g_params = EmptyMap
    /\ g_slices = 0
    /\ g_radius = EmptyMap
    /\ g_faces = <<>>
    /\ g_bolt = [nv |-> 0, faces |-> <<>>]

WindowInit ==
    LET st == ParseParameters(Constructed)
    IN  /\ editor = st.editor
        /\ sliders = st.sliders
        /\ current_params = st.current_params
        /\ generated_mesh = st.generated_mesh
        /\ offset = st.offset
        /\ last = st.last
        /\ good = st.good

Init == WindowInit /\ GenIdle

Commit(st) ==
    /\ editor' = st.editor
    /\ sliders' = st.sliders
    /\ current_params' = st.current_params
    /\ generated_mesh' = st.generated_mesh
    /\ offset' = st.offset
    /\ last' = st.last
    /\ good' = st.good
    /\ UNCHANGED gen_vars

\* the user moves the slider of `name` to the position of value v
SliderMoved ==
    \E name \in DOMAIN sliders : \E v \in UserValues(name) :
        LET w   == sliders[name]
            pos == (v * w.multiplier) \div 100
        IN  /\ SliderToFloat(pos, w.multiplier) = v
            /\ pos \in w.s_min..w.s_max
            /\ pos # w.s_val
            /\ Commit(OnSlider([St EXCEPT !.last = NewEvent("slider"),
                                          !.sliders[name].s_val = pos], name, pos))

\* the user gives the spin box of `name` the value v
SpinEdited ==
    \E name \in DOMAIN sliders : \E v \in UserValues(name) :
        LET w == sliders[name]
        IN  /\ RoundToDecimals(v, w.i_dec) = v
            /\ v \in w.i_min..w.i_max
            /\ v # w.i_val
            /\ Commit(OnInput([St EXCEPT !.last = NewEvent("input"),
                                         !.sliders[name].i_val = v], name, v))

\* the user changes offset_spin, whose valueChanged is run_generation
OffsetChanged ==
    \E v \in OffsetValues :
        /\ v # offset
        /\ Commit(RunGeneration([St EXCEPT !.last = NewEvent("offset"), !.offset = v]))

\* btn_refresh.clicked
ParseClicked ==
    LET st == ParseParameters([St EXCEPT !.last = NewEvent("parse")])
    IN  /\ st.last.kind = "parse"
        /\ Commit(st)

\* the user replaces the editor's text; nothing is connected to it
EditText ==
    \E id \in RecipeIds :
        /\ id # editor
        /\ Commit([St EXCEPT !.editor = id, !.last = NewEvent("edit")])

Next ==
    \/ SliderMoved
    \/ SpinEdited
    \/ OffsetChanged
    \/ ParseClicked
    \/ EditText

Spec == Init /\ [][Next]_vars

(***************************************************************************)
(* One call generate(params), step by step.  The arguments are drawn from  *)
(* GenArgs; those within the ranges DEFAULT_CODE declares satisfy          *)
(* InDeclaredRange.                                                        *)
(***************************************************************************)

MaxRes == 5

MaxVerts == 1000

GenArgs ==
    {[diameter_m |-> d, length |-> l, pitch |-> p, head_size |-> 1700,
      head_height |-> 700, resolution |-> r] :
        d \in {300, 1000}, l \in {10, 100, 130, 1000, 1003, 4000},
        p \in {51, 150, 390, 400}, r \in {100 * k : k \in 3..MaxRes} \cup {3200}}

\* each value within the (min, max) that `parameters` of DEFAULT_CODE declares
InDeclaredRange(params) ==
    \A k \in 1..Len(DefaultParameters) :
        LET d == DefaultParameters[k]
        IN  d.min_val <= params[d.name] /\ params[d.name] <= d.max_val

GenArgsChosen ==
    /\ g_stage = "args"
    /\ g_params \in GenArgs
    /\ g_slices = 0
    /\ g_radius = EmptyMap
    /\ g_faces = <<>>
    /\ g_bolt = [nv |-> 0, faces |-> <<>>]

\* total_slices
GenSlices ==
    /\ g_stage = "args"
    /\ g_stage' = "slices"
    /\ g_slices' = TotalSlices(g_params.length, g_params.pitch)
    /\ UNCHANGED <<g_params, g_radius, g_faces, g_bolt>>
    /\ UNCHANGED gui_vars

\* current_r, at the sampled phases and the sampled heights within [0, length]
GenRadius ==
    /\ g_stage = "slices"
    /\ g_stage' = "radius"
    /\ g_radius' = [x \in (0..(PhaseDen - 1)) \X {z \in ZSamples : z <= g_params.length} |->
                       CurrentR(g_params.diameter_m, g_params.pitch, x[1], x[2])]
    /\ UNCHANGED <<g_params, g_slices, g_faces, g_bolt>>
    /\ UNCHANGED gui_vars

\* faces
GenFaces ==
    /\ g_stage = "radius"
    /\ g_slices * Res(g_params) <= MaxVerts
    /\ g_stage' = "faces"
    /\ g_faces' = ThreadFaces(g_slices, Res(g_params))
    /\ UNCHANGED <<g_params, g_slices, g_radius, g_bolt>>
    /\ UNCHANGED gui_vars

\* bolt
GenAssemble ==
    /\ g_stage = "faces"
    /\ g_stage' = "done"
    /\ g_bolt' = Bolt(g_slices, Res(g_params))
    /\ UNCHANGED <<g_params, g_slices, g_radius, g_faces>>
    /\ UNCHANGED gui_vars

GenNext ==
    \/ GenSlices
    \/ GenRadius
    \/ GenFaces
    \/ GenAssemble

GenInit == WindowInit /\ GenArgsChosen

GenSpec == GenInit /\ [][GenNext]_vars

(***************************************************************************)
(* Properties                                                              *)
(***************************************************************************)

FailedRegen == last.regen /\ ~last.ok

C2_FailureKeepsParams == FailedRegen => current_params = good.params

\* C6: after every successful regeneration the held mesh is that of
\* generate(current_params) under the editor's recipe, displaced exactly once
\* by offset when |offset| > 0.001 and not displaced otherwise.
C6_FreshMeshDisplacedOnce ==
    (last.regen /\ last.ok) =>
        /\ generated_mesh.recipe = editor
        /\ generated_mesh.params = current_params
        /\ generated_mesh.displaced = (IF Abs(offset) > OffsetEps THEN 1 ELSE 0)
        /\ generated_mesh.disp = (IF Abs(offset) > OffsetEps THEN offset ELSE 0)

\* C6 witness: a regeneration triggered by an offset change to -0.05 has
\* succeeded, with the same parameters as the displaced mesh before it.
C6_Witness ==
    /\ last.kind = "offset" /\ last.ok
    /\ offset = -50
    /\ generated_mesh.disp = -50

\* C7 (as claimed): a widget is integer-flagged exactly when its declared
\* default has an integral value, and integer-flagged parameters hold
\* integers.
C7_FlagFromIntegralValue ==
    \A name \in DOMAIN sliders :
        /\ sliders[name].is_int <=> (sliders[name].decl.default % 100 = 0)
        /\ (sliders[name].is_int /\ name \in DOMAIN current_params)
              => current_params[name] % 100 = 0

\* C7 (amended): a widget is integer-flagged exactly when its declared
\* default is a Python int, and every value of an integer-flagged parameter
\* in current_params, the argument of generate, is an integer.
C7_FlagFromIntType ==
    \A name \in DOMAIN sliders :
        /\ sliders[name].is_int <=> sliders[name].decl.int_literal
        /\ (sliders[name].is_int /\ name \in DOMAIN current_params)
              => current_params[name] % 100 = 0

\* C7 witness: resolution (declared 64) has been moved to 48 and passed to
\* generate, while diameter_m (declared 10.0) is not integer-flagged.
C7_Witness ==
    /\ last.kind = "slider" /\ last.ok
    /\ "resolution" \in DOMAIN sliders /\ "diameter_m" \in DOMAIN sliders
    /\ sliders["resolution"].is_int
    /\ current_params["resolution"] = 4800
    /\ ~sliders["diameter_m"].is_int

\* C8 (as claimed): every declaration that entered the parameter set has
\* min <= default <= max, and every entry of current_params lies within the
\* min and max of its declaration.
C8_BoundsRespected ==
    \A name \in DOMAIN sliders :
        LET d == sliders[name].decl
        IN  /\ d.min_val <= d.max_val
            /\ d.min_val <= d.default /\ d.default <= d.max_val
            /\ name \in DOMAIN current_params =>
                  (d.min_val <= current_params[name] /\ current_params[name] <= d.max_val)

\* C10: an event on a slider or on a spin box emits value_changed once,
\* updates current_params once and runs run_generation once, and leaves no
\* signal blocked.
C10_OneRegenerationPerChange ==
    /\ last.kind \in {"slider", "input"} =>
          (last.emits = 1 /\ last.updates = 1 /\ last.runs = 1)
    /\ \A name \in DOMAIN sliders :
          ~sliders[name].s_blocked /\ ~sliders[name].i_blocked

\* C10 witness: the spin box of pitch was given 0.57; the slider was moved
\* with its signals blocked (to int(0.57 * 100) = 56) and one regeneration ran.
C10_Witness ==
    /\ last.kind = "input" /\ last.runs = 1
    /\ "pitch" \in DOMAIN sliders
    /\ sliders["pitch"].i_val = 57
    /\ sliders["pitch"].s_val = 56

GenRows == g_slices
GenCols == Res(g_params)

\* C3: every index of the thread faces is within [0, total_slices * res), and
\* every index of the concatenated mesh within [0, vertex count), the count
\* being the sum of the parts'.
C3_FaceIndicesInRange ==
    /\ g_stage \in {"faces", "done"} =>
          \A k \in 1..Len(g_faces) : \A m \in 1..3 :
              g_faces[k][m] \in 0..(GenRows * GenCols - 1)
    /\ g_stage = "done" =>
          /\ g_bolt.nv = Cylinder(6).nv + GenRows * GenCols + Cylinder(GenCols).nv
          /\ \A k \in 1..Len(g_bolt.faces) : \A m \in 1..3 :
                g_bolt.faces[k][m] \in 0..(g_bolt.nv - 1)

\* C3 witness: the mesh of in-range parameters (length 10, pitch 4,
\* resolution 32) has been assembled.
C3_Witness ==
    /\ g_stage = "done"
    /\ InDeclaredRange(g_params)
    /\ Len(g_bolt.faces) > Len(g_faces)

\* the triangles the topology rule gives
ExpectedFaces(rows, res) ==
    UNION { { << i * res + j, i * res + ((j + 1) % res), (i + 1) * res + ((j + 1) % res) >>,
              << i * res + j, (i + 1) * res + ((j + 1) % res), (i + 1) * res + j >> } :
            i \in 0..(rows - 2), j \in 0..(res - 1) }

\* C4: the thread faces are exactly the two triangles (c, c_next, n_next) and
\* (c, n_next, n) of every row pair and column, the column wrapping; there
\* are 2 * (total_slices - 1) * res of them, none twice.
C4_ThreadTopology ==
    g_stage \in {"faces", "done"} =>
        LET faces == {g_faces[k] : k \in 1..Len(g_faces)}
        IN  /\ faces = ExpectedFaces(GenRows, GenCols)
            /\ Len(g_faces) = 2 * (GenRows - 1) * GenCols
            /\ Cardinality(faces) = Len(g_faces)

\* C4 witness: a surface of at least three rows holds the triangle that
\* wraps from the last column of row 0 to column 0.
C4_Witness ==
    /\ g_stage = "faces"
    /\ GenRows >= 3
    /\ \E k \in 1..Len(g_faces) : g_faces[k] = <<GenCols - 1, 0, GenCols>>

SlicesComputed == g_stage \in {"slices", "radius", "faces", "done"}

\* C5 (as claimed): total_slices = max(2, round((length / pitch) * 12)).
C5_RoundedSlices ==
    SlicesComputed =>
        g_slices = Max(2, RoundNearest(slices_per_pitch * g_params.length, g_params.pitch))

\* C5 (amended): total_slices = max(2, t), t the integer part of the double
\* product (length / pitch) * 12: the largest integer with t * pitch <=
\* 12 * length, or one less where the double product falls just below an
\* integer; length 40, pitch 1.5 gives 320.
C5_TruncatedSlices ==
    SlicesComputed =>
        LET num == slices_per_pitch * g_params.length
            den == g_params.pitch
        IN  /\ \E t \in {0, 1, 2, g_slices} :
                  /\ g_slices = Max(2, t)
                  /\ IF <<g_params.length, g_params.pitch>> \in FloatShort
                     THEN (t + 1) * den = num
                     ELSE t * den <= num /\ num < (t + 1) * den
            /\ (g_params.length = 4000 /\ g_params.pitch = 150) => g_slices = 320

\* C5 witness: length 1.3, pitch 4.0: the product 3.9 is truncated to 3.
C5_Witness ==
    /\ g_stage = "slices"
    /\ g_params.length = 130 /\ g_params.pitch = 400
    /\ g_slices = 3

\* C9 (as claimed): for in-range parameters and a fixed profile value the
\* radius is non-decreasing in z, constant for z >= 1.5 * pitch, and the
\* taper factor stays within [0.8, 1.0].
C9_TaperMonotone ==
    (g_stage \in {"radius", "faces", "done"} /\ InDeclaredRange(g_params)) =>
        \A x \in DOMAIN g_radius : \A y \in DOMAIN g_radius :
            (x[1] = y[1] /\ x[2] <= y[2]) =>
                /\ WideLeq(g_radius[x], g_radius[y])
                /\ 2 * x[2] >= 3 * g_params.pitch => g_radius[x] = g_radius[y]
                /\ 12 * g_params.pitch <= TaperFactor(x[2], g_params.pitch)
                /\ TaperFactor(x[2], g_params.pitch) <= 15 * g_params.pitch

====
